---- MODULE Spec2Model ----
(***************************************************************************)
(* Model of pkg/stream/stream.go (koss-null/lambda): the lazy stream, its  *)
(* stage registration calls, the run-once gate, addTasks/startWorkers and  *)
(* the terminal operations.                                                *)
(*                                                                         *)
(* Facts of the source the model rests on:                                 *)
(*  - Stream() builds &stream{wrksCnt: 1, dt: dtCopy, bm: &bm}; st.tasks,  *)
(*    st.done and st.stopWrkrs keep their zero value (nil).  No statement  *)
(*    of the file assigns st.tasks, so every send to it and every receive  *)
(*    from it blocks forever (Go channel semantics for a nil channel).     *)
(*  - st.fns is only ever appended to; no statement calls one of its       *)
(*    elements.  Only Map appends to st.ops.                               *)
(*  - onceRun is a sync.Once: Do marks the gate done when its function     *)
(*    returns or panics, and holds concurrent callers until then.          *)
(* tools.Bitmask, Operation and minSplitLen are declared outside the file; *)
(* they are modelled from the specification.                               *)
(*                                                                         *)
(* Two specifications.  Spec is the program as Stream() builds it: there   *)
(* no worker ever leaves its select.  SpecW is the worker loop of          *)
(* startWorkers on a queue that delivers the tasks addTasks builds; it     *)
(* serves the properties of the loop's branches, which Spec never enters.  *)
(***************************************************************************)
EXTENDS Integers, Sequences, FiniteSets

\* ---- bounds of the model ------------------------------------------------
MaxLen == 2
MaxStages == 1
MaxCalls == 2
\* longest buffer and largest worker count the worker loop is started on
MaxBuf == 3
MaxWorkers == 2

\* ---- program constants --------------------------------------------------
minSplitLen == 2

\* element values; the stream never inspects an element itself
Values == {1, 2}
\* n of Skip and Trim: one element, more than the input holds
Args == {1, MaxLen + 1}
\* n of Go: no goroutine, two goroutines
GoArgs == {0, 2}
\* the terminal calls made on the stream, each by a goroutine of its own or
\* after an earlier one returned
Callers == 1..MaxCalls

RECURSIVE SeqsUpTo(_)
SeqsUpTo(n) ==
    IF n = 0 THEN {<<>>}
    ELSE LET S == SeqsUpTo(n - 1)
         IN S \cup {Append(s, v) : s \in {t \in S : Len(t) = n - 1}, v \in Values}

Inputs == SeqsUpTo(MaxLen)

\* ---- caller-supplied functions (drawn from small sets) -------------------
\* fn of Map: 1 is the cyclic successor on Values
MapFns == {1}
MapFn(f, x) == (x % 2) + 1

\* fn of Filter: 1 is "x is even"
Preds == {1}
Pred(p, x) == x % 2 = 0

\* sum of Sum: 0 is nil, 1 is a combine function
SumFns == {0, 1}

\* eq of Contains: equality
Eq(a, b) == a = b

\* ---- tools.Bitmask ------------------------------------------------------
\* a tracker is the sequence of its flags; flag i+1 is the flag of index i
Max(a, b) == IF a > b THEN a ELSE b

Min(a, b) == IF a < b THEN a ELSE b

PutLine(b, lo, hi, v) ==
    [i \in 1..Max(Len(b), hi) |->
        IF lo < i /\ i <= hi THEN v
        ELSE IF i <= Len(b) THEN b[i] ELSE FALSE]

RECURSIVE Apply(_, _)
Apply(b, d) ==
    IF d = <<>> THEN <<>>
    ELSE (IF b /= <<>> /\ Head(b) THEN <<Head(d)>> ELSE <<>>)
         \o Apply(IF b = <<>> THEN b ELSE Tail(b), Tail(d))

CountOnes(b) == Cardinality({i \in 1..Len(b) : b[i]})

\* ---- Operation ----------------------------------------------------------
Operation(id, sync, f) == [id |-> id, sync |-> sync, fn |-> f]

\* entries of st.fns: the closure's kind and its captured argument
Fn(kind, arg) == [kind |-> kind, arg |-> arg]

StageKinds == {"Skip", "Trim", "Reduce", "Filter", "Sorted1", "Sorted2"}

\* ---- state --------------------------------------------------------------
VARIABLES
    orig,       \* the slice the caller passed to Stream()
    dt,         \* st.dt
    bm,         \* st.bm
    ops,        \* st.ops
    opsIdx,     \* st.opsIdx
    fns,        \* st.fns
    wrksCnt,    \* st.wrksCnt
    onceRun,    \* st.onceRun: "unfired", "running" (inside Do), "done"
    tasks,      \* st.tasks: [nil |-> is the channel nil, buf |-> tasks in it]
    stopWrkrs,  \* st.stopWrkrs: "nil", "open" or "closed"
    workers,    \* the goroutines started by startWorkers, each one's position
    pend,       \* the task a sender is blocked on in addTasks, if any
    applied,    \* history: <<stage, index>> pairs on which a transform ran
    pc,         \* each caller's position
    call,       \* each caller's current or last call, with its outcome
    runBodies,  \* history: how often the function passed to onceRun.Do began
    nReg,       \* number of registration calls made (also the id source)
    lastReg,    \* history: the last registration call, [kind, arg]
    wtask,      \* the task each worker has received and not yet finished
    done,       \* st.done: the recorded stage ids (a nil map reads as empty)
    syncMx,     \* st.syncMx: 0 when free, else the worker holding it
    doneMx,     \* st.doneMx: 0 when free, else the worker holding it
    barrierRuns \* history: the ids of the barrier stages whose transform ran

streamVars == <<dt, bm, ops, opsIdx, fns, wrksCnt>>
schedVars == <<onceRun, tasks, stopWrkrs, workers, pend, applied, runBodies,
               wtask, done, syncMx, doneMx, barrierRuns>>
callVars == <<pc, call>>
regVars == <<nReg, lastReg>>
vars == <<orig, dt, bm, ops, opsIdx, fns, wrksCnt, onceRun, tasks, stopWrkrs,
          workers, pend, applied, pc, call, runBodies, nReg, lastReg, wtask,
          done, syncMx, doneMx, barrierRuns>>

\* out is "none" (no call yet), "pending", "ret" (returned val) or "panic"
NoCall == [op |-> "none", arg |-> 0, out |-> "none", val |-> 0]

\* Stream(data)
Stream(data) ==
    /\ orig = data
    /\ dt = data
    /\ bm = PutLine(<<>>, 0, Len(data), TRUE)
    /\ wrksCnt = 1
    /\ ops = <<>>
    /\ opsIdx = 0
    /\ fns = <<>>
    /\ onceRun = "unfired"
    /\ tasks = [nil |-> TRUE, buf |-> <<>>]
    /\ stopWrkrs = "nil"
    /\ workers = <<>>
    /\ done = {}
    /\ syncMx = 0
    /\ doneMx = 0

Init ==
    /\ \E data \in Inputs : Stream(data)
    /\ pend = <<>>
    /\ applied = {}
    /\ pc = [c \in Callers |-> "idle"]
    /\ call = [c \in Callers |-> NoCall]
    /\ runBodies = 0
    /\ nReg = 0
    /\ lastReg = Fn("none", 0)
    /\ wtask = <<>>
    /\ barrierRuns = <<>>

\* ---- stage registration -------------------------------------------------
\* number of terminal calls made
nCalls == Cardinality({c \in Callers : call[c].op /= "none"})

\* The stages are registered before the first terminal call.
CanRegister == nReg < MaxStages /\ nCalls = 0

\* the bookkeeping of one registration call
Registered(kind, arg) ==
    /\ nReg' = nReg + 1
    /\ lastReg' = Fn(kind, arg)

AppendFn(f) ==
    /\ fns' = Append(fns, f)
    /\ UNCHANGED <<orig, dt, bm, ops, opsIdx, wrksCnt, schedVars, callVars>>

Skip(n) == CanRegister /\ Registered("Skip", n) /\ AppendFn(Fn("Skip", n))

Trim(n) == CanRegister /\ Registered("Trim", n) /\ AppendFn(Fn("Trim", n))

Reduce(f) == CanRegister /\ Registered("Reduce", f) /\ AppendFn(Fn("Reduce", f))

Filter(p) == CanRegister /\ Registered("Filter", p) /\ AppendFn(Fn("Filter", p))

Sorted(less) ==
    /\ CanRegister
    /\ Registered("Sorted", less)
    /\ fns' = fns \o <<Fn("Sorted1", less), Fn("Sorted2", less)>>
    /\ UNCHANGED <<orig, dt, bm, ops, opsIdx, wrksCnt, schedVars, callVars>>

\* Map applying its function to the buffer at registration
Map_Eager(f) ==
    /\ CanRegister
    /\ Registered("Map", f)
    /\ ops' = Append(ops, Operation(nReg + 1, FALSE, f))
    /\ dt' = [i \in 1..Len(dt) |-> MapFn(f, dt[i])]
    /\ UNCHANGED <<orig, bm, opsIdx, fns, wrksCnt, schedVars, callVars>>

Map(f) ==
    /\ CanRegister
    /\ Registered("Map", f)
    /\ ops' = Append(ops, Operation(nReg + 1, FALSE, f))
    /\ UNCHANGED <<orig, dt, bm, opsIdx, fns, wrksCnt, schedVars, callVars>>

\* Go storing its argument as the worker count
Go_StoresN(n) ==
    /\ CanRegister
    /\ Registered("Go", n)
    /\ wrksCnt' = n
    /\ UNCHANGED <<orig, dt, bm, ops, opsIdx, fns, schedVars, callVars>>

Go(n) ==
    /\ CanRegister
    /\ Registered("Go", n)
    /\ UNCHANGED <<orig, streamVars, schedVars, callVars>>

Split(sp) ==
    /\ CanRegister
    /\ Registered("Split", sp)
    /\ UNCHANGED <<orig, streamVars, schedVars, callVars>>

\* ---- terminal calls: entry ------------------------------------------------
\* callers are interchangeable: they enter in the order of their numbers
CanCall(c) ==
    /\ call[c].op = "none"
    /\ c > 1 => call[c - 1].op /= "none"

\* caller c enters op(arg) and goes to position p
Begin(c, op, arg, p) ==
    /\ call' = [call EXCEPT ![c] = [op |-> op, arg |-> arg, out |-> "pending", val |-> 0]]
    /\ pc' = [pc EXCEPT ![c] = p]

\* caller c enters op(arg) and returns val at once
Immediate(c, op, arg, val) ==
    /\ call' = [call EXCEPT ![c] = [op |-> op, arg |-> arg, out |-> "ret", val |-> val]]
    /\ UNCHANGED pc

\* the pending call of caller c returns val (out = "ret") or panics
Finish(c, out, val) ==
    /\ pc' = [pc EXCEPT ![c] = "idle"]
    /\ call' = [call EXCEPT ![c].out = out, ![c].val = val]

Slice(c) ==
    /\ CanCall(c)
    /\ Begin(c, "Slice", 0, "run")
    /\ fns' = Append(fns, Fn("SliceFn", 0))
    /\ UNCHANGED <<orig, dt, bm, ops, opsIdx, wrksCnt, schedVars, regVars>>

Count(c) ==
    /\ CanCall(c)
    /\ Begin(c, "Count", 0, "run")
    /\ UNCHANGED <<orig, streamVars, schedVars, regVars>>

\* None is `st.Count() == 0` and Any is `!st.None()`: both are the Count
\* call, whose result n they turn into NoneVal(n) and AnyVal(n)
None(c) == Count(c)

NoneVal(n) == n = 0

Any(c) == None(c)

AnyVal(n) == ~NoneVal(n)

\* Sum without its nil check
SumIsNil_Never(sum) == FALSE

\* `if sum == nil { return 0 }`
SumIsNil(sum) == sum = 0

Sum(c, sum) ==
    /\ CanCall(c)
    /\ IF SumIsNil(sum)
       THEN /\ Immediate(c, "Sum", sum, 0)
            /\ UNCHANGED fns
       ELSE /\ Begin(c, "Sum", sum, "run")
            /\ fns' = Append(fns, Fn("SumFn", sum))
    /\ UNCHANGED <<orig, dt, bm, ops, opsIdx, wrksCnt, schedVars, regVars>>

\* Contains scanning from the second element
ContainsRes_FromSecond(d, item) == \E i \in 2..Len(d) : Eq(d[i], item)

ContainsRes(d, item) == \E i \in 1..Len(d) : Eq(d[i], item)

\* Contains reads st.dt without a lock; the only writer, addTasks, stores a
\* compacted copy with the same elements, so a racing read sees them too.
Contains(c, item) ==
    /\ CanCall(c)
    /\ Immediate(c, "Contains", item, ContainsRes(dt, item))
    /\ UNCHANGED <<orig, streamVars, schedVars, regVars>>

\* ---- run ------------------------------------------------------------------
\* task{op, dt: st.dt[lf:rg], bm: the tracker's window lf..rg, wg}; wg is the
\* counter of the task's WaitGroup, 0 for a new `&sync.WaitGroup{}`
Task(op, lf, rg, wg) == [op |-> op, lf |-> lf, rg |-> rg, wg |-> wg]

\* a worker with no task in hand
NoTask == Task(Operation(0, FALSE, 0), 0, 0, 0)

BlockSize(dataLen, w) ==
    LET b == Min(minSplitLen, dataLen)
    IN  IF dataLen \div w > b THEN dataLen \div w ELSE b

\* can a send on st.tasks proceed: never on a nil channel
SendEnabled == ~tasks.nil /\ \E w \in 1..Len(workers) : workers[w] = "select"

\* nextOp: does st.ops[st.opsIdx-1] index out of range after the increment
NextOpPanics == opsIdx + 1 > Len(ops)

\* addTasks up to its first send: compaction, tracker reset, nextOp.
\* Outcome "panic" when nextOp indexes out of range, "send" when the loop
\* is entered (the caller then waits in `st.tasks <- task`), else "ret".
AddTasksOutcome ==
    IF NextOpPanics THEN "panic"
    ELSE IF 0 < Len(Apply(bm, dt)) THEN "send" ELSE "ret"

AddTasks ==
    LET d == Apply(bm, dt)
        dataLen == Len(d)
        blockSize == BlockSize(dataLen, wrksCnt)
    IN  /\ dt' = d
        /\ bm' = PutLine(bm, 0, dataLen, TRUE)
        /\ opsIdx' = opsIdx + 1
        /\ pend' = IF AddTasksOutcome = "send"
                   THEN <<Task(ops[opsIdx + 1], 0, blockSize, 0)>>
                   ELSE pend

\* startWorkers: one goroutine per worker, each waiting in its select.  Its
\* two cases never become ready: `done` is never closed and st.tasks is nil,
\* so a started worker stays in "select" and runs no stage transform.
StartWorkers ==
    /\ stopWrkrs' = "open"
    /\ workers' = workers \o [i \in 1..wrksCnt |-> "select"]
    /\ wtask' = wtask \o [i \in 1..wrksCnt |-> NoTask]

\* a gate that fires on every call
OnceFires_Always(o) == TRUE

\* sync.Once: Do calls its function iff the gate has not fired
OnceFires(o) == o = "unfired"

\* run(): st.onceRun.Do(func() { st.addTasks(); st.startWorkers() }).
\* The first caller runs the function, holding the gate's lock: a caller
\* that arrives meanwhile waits, one that arrives later skips it.  Do marks
\* the gate done when the function returns or panics; a panic ends the
\* terminal call.  A caller blocked in addTasks' send stays in Do.
Run(c) ==
    /\ pc[c] = "run"
    /\ onceRun /= "running"
    /\ IF OnceFires(onceRun)
       THEN /\ runBodies' = runBodies + 1
            /\ AddTasks
            /\ CASE AddTasksOutcome = "panic" ->
                      /\ onceRun' = "done"
                      /\ Finish(c, "panic", 0)
                      /\ UNCHANGED <<stopWrkrs, workers, wtask>>
                 [] AddTasksOutcome = "send" ->
                      /\ onceRun' = "running"
                      /\ pc' = [pc EXCEPT ![c] = "send"]
                      /\ UNCHANGED <<call, stopWrkrs, workers, wtask>>
                 [] AddTasksOutcome = "ret" ->
                      /\ StartWorkers
                      /\ onceRun' = "done"
                      /\ pc' = [pc EXCEPT ![c] = "read"]
                      /\ UNCHANGED call
       ELSE /\ pc' = [pc EXCEPT ![c] = "read"]
            /\ UNCHANGED <<dt, bm, opsIdx, pend, onceRun, runBodies, stopWrkrs,
                           workers, wtask, call>>
    /\ UNCHANGED <<orig, ops, fns, wrksCnt, tasks, applied, regVars, done,
                   syncMx, doneMx, barrierRuns>>

\* ---- terminal calls: after run() -------------------------------------------
\* Slice returns its local data and Sum its local s; only the closures they
\* appended to st.fns assign them.  Count reads the tracker under mbMx.
TerminalValue(op) ==
    CASE op = "Slice" -> <<>>
      [] op = "Sum"   -> 0
      [] op = "Count" -> CountOnes(bm)

Return(c) ==
    /\ pc[c] = "read"
    /\ Finish(c, "ret", TerminalValue(call[c].op))
    /\ UNCHANGED <<orig, streamVars, schedVars, regVars>>

\* ---- specification --------------------------------------------------------
Register ==
    \/ \E n \in Args : Skip(n)
    \/ \E n \in Args : Trim(n)
    \/ \E f \in MapFns : Map(f)
    \/ \E f \in {1} : Reduce(f)
    \/ \E p \in Preds : Filter(p)
    \/ \E l \in {1} : Sorted(l)
    \/ \E n \in GoArgs : Go(n)
    \/ \E s \in {1} : Split(s)

Terminal ==
    \/ \E c \in Callers : Slice(c)
    \/ \E c \in Callers : Count(c)
    \/ \E c \in Callers : None(c)
    \/ \E c \in Callers : Any(c)
    \/ \E c \in Callers, f \in SumFns : Sum(c, f)
    \/ \E c \in Callers, item \in Values : Contains(c, item)

Next ==
    \/ Register
    \/ Terminal
    \/ \E c \in Callers : Run(c)
    \/ \E c \in Callers : Return(c)

Spec == Init /\ [][Next]_vars

TypeOK ==
    /\ onceRun \in {"unfired", "running", "done"}
    /\ \A c \in Callers : pc[c] \in {"idle", "run", "send", "read"}
    /\ Len(bm) = Len(dt)

\* ---- the worker loop -----------------------------------------------------
\* In Spec no worker ever receives a task: st.tasks is nil.  SpecW runs the
\* loop of startWorkers on a queue that delivers: run() is over, the queue
\* holds the tasks of the first stage as addTasks builds them, and the
\* workers wait in their select.  The stage may be a barrier (Operation.sync)
\* and there may be several workers: the loop is written for both, though no
\* statement of the file registers a barrier stage or changes st.wrksCnt.
\* The queue has room for every send.

\* a panic in a goroutine ends the process
Crashed == \E w \in 1..Len(workers) : workers[w] = "panic"

\* the position in st.ops of the stage a task carries
StageIdx(op) == CHOOSE k \in 1..Len(ops) : ops[k].id = op.id

\* t.op.Do(t.dt, t.bm): the stage's function on the live elements of the
\* task's window of d, as Map's closure does
Do(t, d) ==
    [i \in 1..Len(d) |->
        IF t.lf < i /\ i <= t.rg /\ bm[i] THEN MapFn(t.op.fn, d[i]) ELSE d[i]]

\* history: the elements of the task's window, marked for its stage
Ran(t) == {<<<<"ops", StageIdx(t.op)>>, i>> : i \in (t.lf + 1)..t.rg}

\* the windows of addTasks' loop, from [lf, rg) on
RECURSIVE Windows(_, _, _, _)
Windows(lf, rg, dataLen, blockSize) ==
    IF lf < dataLen
    THEN <<[lf |-> lf, rg |-> rg]>>
         \o Windows(rg, Min(rg + blockSize, dataLen), dataLen, blockSize)
    ELSE <<>>

\* the tasks addTasks sends for stage op on a buffer of length dataLen
NewTasks(op, dataLen, w) ==
    LET ws == Windows(0, BlockSize(dataLen, w), dataLen, BlockSize(dataLen, w))
    IN  [j \in 1..Len(ws) |-> Task(op, ws[j].lf, ws[j].rg, 0)]

\* what no step of a worker changes
fixedW == <<orig, ops, fns, wrksCnt, onceRun, pend, pc, call, runBodies, regVars>>

\* `case t := <-st.tasks`
Receive(w) ==
    /\ ~Crashed
    /\ workers[w] = "select"
    /\ ~tasks.nil
    /\ tasks.buf /= <<>>
    /\ wtask' = [wtask EXCEPT ![w] = Head(tasks.buf)]
    /\ tasks' = [tasks EXCEPT !.buf = Tail(@)]
    /\ workers' = [workers EXCEPT
                     ![w] = IF Head(tasks.buf).op.sync THEN "lockSync" ELSE "do"]
    /\ UNCHANGED <<fixedW, dt, bm, opsIdx, stopWrkrs, applied, done, syncMx,
                   doneMx, barrierRuns>>

\* `case <-done: return`
Exit(w) ==
    /\ ~Crashed
    /\ workers[w] = "select"
    /\ stopWrkrs = "closed"
    /\ workers' = [workers EXCEPT ![w] = "stopped"]
    /\ UNCHANGED <<fixedW, dt, bm, opsIdx, tasks, stopWrkrs, applied, wtask, done,
                   syncMx, doneMx, barrierRuns>>

\* barrier branch: st.syncMx.Lock()
LockSync(w) ==
    /\ ~Crashed
    /\ workers[w] = "lockSync"
    /\ syncMx = 0
    /\ syncMx' = w
    /\ workers' = [workers EXCEPT ![w] = "wait"]
    /\ UNCHANGED <<fixedW, dt, bm, opsIdx, tasks, stopWrkrs, applied, wtask, done,
                   doneMx, barrierRuns>>

\* barrier branch: t.wg.Wait() returns when the counter is zero
WgWait(w) ==
    /\ ~Crashed
    /\ workers[w] = "wait"
    /\ wtask[w].wg = 0
    /\ workers' = [workers EXCEPT ![w] = "lockDone"]
    /\ UNCHANGED <<fixedW, dt, bm, opsIdx, tasks, stopWrkrs, applied, wtask, done,
                   syncMx, doneMx, barrierRuns>>

\* barrier branch: st.doneMx.Lock()
LockDone(w) ==
    /\ ~Crashed
    /\ workers[w] = "lockDone"
    /\ doneMx = 0
    /\ doneMx' = w
    /\ workers' = [workers EXCEPT ![w] = "lookup"]
    /\ UNCHANGED <<fixedW, dt, bm, opsIdx, tasks, stopWrkrs, applied, wtask, done,
                   syncMx, barrierRuns>>

\* barrier branch from `if _, ok := st.done[t.op.id]; !ok { continue }` on.
\* Not recorded: back to the select, no Unlock on the way.  Recorded: record,
\* doneMx.Unlock(), t.op.Do, st.addTasks(), syncMx.Unlock(), all under syncMx.
CheckDone(w) ==
    /\ ~Crashed
    /\ workers[w] = "lookup"
    /\ IF wtask[w].op.id \notin done
       THEN /\ workers' = [workers EXCEPT ![w] = "select"]
            /\ wtask' = [wtask EXCEPT ![w] = NoTask]
            /\ UNCHANGED <<dt, bm, opsIdx, tasks, applied, done, syncMx, doneMx,
                           barrierRuns>>
       ELSE LET t == wtask[w]
                d == Apply(bm, Do(t, dt))
            IN  /\ done' = done \cup {t.op.id}
                /\ doneMx' = 0
                /\ barrierRuns' = Append(barrierRuns, t.op.id)
                /\ applied' = applied \cup Ran(t)
                /\ dt' = d
                /\ bm' = PutLine(bm, 0, Len(d), TRUE)
                /\ opsIdx' = opsIdx + 1
                /\ IF NextOpPanics
                   THEN /\ workers' = [workers EXCEPT ![w] = "panic"]
                        /\ UNCHANGED <<tasks, wtask, syncMx>>
                   ELSE /\ tasks' = [tasks EXCEPT
                               !.buf = @ \o NewTasks(ops[opsIdx + 1], Len(d), wrksCnt)]
                        /\ syncMx' = 0
                        /\ workers' = [workers EXCEPT ![w] = "select"]
                        /\ wtask' = [wtask EXCEPT ![w] = NoTask]
    /\ UNCHANGED <<fixedW, stopWrkrs>>

\* chunked branch: t.op.Do, t.wg.Done(), nextOp, Add(1) unless the next stage
\* is a barrier, and the send of the chunk's next task.  Done() on a counter
\* of zero makes it negative and panics.
ChunkDo(w) ==
    LET t == wtask[w]
    IN  /\ ~Crashed
        /\ workers[w] = "do"
        /\ dt' = Do(t, dt)
        /\ applied' = applied \cup Ran(t)
        /\ IF t.wg - 1 < 0
           THEN /\ workers' = [workers EXCEPT ![w] = "panic"]
                /\ wtask' = [wtask EXCEPT ![w].wg = t.wg - 1]
                /\ UNCHANGED <<opsIdx, tasks>>
           ELSE /\ opsIdx' = opsIdx + 1
                /\ IF NextOpPanics
                   THEN /\ workers' = [workers EXCEPT ![w] = "panic"]
                        /\ wtask' = [wtask EXCEPT ![w].wg = t.wg - 1]
                        /\ UNCHANGED tasks
                   ELSE LET no == ops[opsIdx + 1]
                            wg == t.wg - 1 + (IF no.sync THEN 0 ELSE 1)
                        IN  /\ tasks' = [tasks EXCEPT
                                   !.buf = Append(@, Task(no, t.lf, t.rg, wg))]
                            /\ workers' = [workers EXCEPT ![w] = "select"]
                            /\ wtask' = [wtask EXCEPT ![w] = NoTask]
        /\ UNCHANGED <<fixedW, bm, stopWrkrs, done, syncMx, doneMx, barrierRuns>>

\* close(st.stopWrkrs), the stop signal the select listens for; the file
\* stores the channel and holds no statement that closes it
Stop ==
    /\ stopWrkrs = "open"
    /\ stopWrkrs' = "closed"
    /\ UNCHANGED <<fixedW, dt, bm, opsIdx, tasks, workers, applied, wtask, done,
                   syncMx, doneMx, barrierRuns>>

\* the buffers and stage lists the loop is started on
BuffersW == UNION {[1..n -> Values] : n \in 1..MaxBuf}

StageListsW ==
    UNION {{[k \in 1..n |-> Operation(k, b[k], 1)] : b \in [1..n -> BOOLEAN]} :
           n \in 1..MaxStages}

InitW ==
    \E data \in BuffersW, n \in 1..MaxWorkers, stages \in StageListsW :
        /\ orig = data
        /\ dt = data
        /\ bm = PutLine(<<>>, 0, Len(data), TRUE)
        /\ wrksCnt = n
        /\ ops = stages
        /\ opsIdx = 1
        /\ fns = <<>>
        /\ onceRun = "done"
        /\ tasks = [nil |-> FALSE, buf |-> NewTasks(stages[1], Len(data), n)]
        /\ stopWrkrs = "open"
        /\ workers = [i \in 1..n |-> "select"]
        /\ wtask = [i \in 1..n |-> NoTask]
        /\ done = {}
        /\ syncMx = 0
        /\ doneMx = 0
        /\ barrierRuns = <<>>
        /\ pend = <<>>
        /\ applied = {}
        /\ pc = [c \in Callers |-> "idle"]
        /\ call = [c \in Callers |-> NoCall]
        /\ runBodies = 1
        /\ nReg = Len(stages)
        /\ lastReg = Fn("none", 0)

NextW ==
    \/ \E w \in 1..Len(workers) : Receive(w)
    \/ \E w \in 1..Len(workers) : Exit(w)
    \/ \E w \in 1..Len(workers) : LockSync(w)
    \/ \E w \in 1..Len(workers) : WgWait(w)
    \/ \E w \in 1..Len(workers) : LockDone(w)
    \/ \E w \in 1..Len(workers) : CheckDone(w)
    \/ \E w \in 1..Len(workers) : ChunkDo(w)
    \/ Stop

SpecW == InitW /\ [][NextW]_vars

\* ---- properties -----------------------------------------------------------
\* the registered stages: the entries of st.ops and the stage closures of
\* st.fns (the closures Slice and Sum append are not stages)
Stages ==
    {<<"ops", k>> : k \in 1..Len(ops)}
      \cup {<<"fns", k>> : k \in {j \in 1..Len(fns) : fns[j].kind \in StageKinds}}

\* no task is queued, in flight or waiting to be queued, and every stage has
\* run on every element of the buffer
Joined ==
    /\ tasks.buf = <<>>
    /\ pend = <<>>
    /\ \A w \in 1..Len(workers) : workers[w] = "select"
    /\ \A st \in Stages, i \in 1..Len(dt) : <<st, i>> \in applied

\* a caller in addTasks' send that no receiver will ever take
BlockedInSend(c) == pc[c] = "send" /\ ~SendEnabled

Completed(c) == call[c].out \in {"ret", "panic"}

FilterSeq(s, p) == SelectSeq(s, LAMBDA x : Pred(p, x))

MapSeq(s, f) == [i \in 1..Len(s) |-> MapFn(f, s[i])]

SkipSeq(s, n) == SubSeq(s, Min(n, Len(s)) + 1, Len(s))

\* C1: when a terminal operation is about to read the tracker (Count, after
\* run() returned), every registered stage has completed on the whole buffer
\* and no task is queued or in flight.
C1_FullJoinBeforeRead ==
    \A c \in Callers : (pc[c] = "read" /\ call[c].op = "Count") => Joined

\* C2: over all interleavings of terminal calls the function passed to
\* onceRun.Do runs at most once: addTasks takes one stage from the cursor and
\* at most wrksCnt workers are started.
C2_SingleExecution ==
    /\ runBodies <= 1
    /\ opsIdx <= 1
    /\ Len(workers) <= wrksCnt

\* every terminal call that goes through run() was made and has returned,
\* and the pipeline ran once
C2_Witness ==
    /\ \A c \in Callers : call[c].op \in {"Slice", "Count"} /\ call[c].out = "ret"
    /\ runBodies = 1
    /\ Len(workers) = wrksCnt

\* C3: on a non-empty input no caller is ever left blocked on the task queue.
C3_NoCallerBlockedForever ==
    \A c \in Callers : Len(orig) > 0 => ~BlockedInSend(c)

\* C4: Stream(S).Filter(p).Slice() returns the elements of S that satisfy p,
\* in their original order.
C4_FilterSlice ==
    \A p \in Preds :
        (/\ ops = <<>>
         /\ fns = <<Fn("Filter", p), Fn("SliceFn", 0)>>
         /\ nCalls = 1
         /\ call[1].op = "Slice"
         /\ Completed(1))
        => (call[1].out = "ret" /\ call[1].val = FilterSeq(orig, p))

\* C5: Stream(S).Map(f).Slice() returns f(S[i]) at every position i of S: the
\* call gets through run(), the map stage has run on every element before the
\* result is read, and the result is the mapped sequence.
C5_MapSlice ==
    \A f \in MapFns :
        (/\ Len(ops) = 1
         /\ ops[1].fn = f
         /\ fns = <<Fn("SliceFn", 0)>>
         /\ nCalls = 1
         /\ call[1].op = "Slice"
         /\ pc[1] /= "run")
        => /\ ~BlockedInSend(1)
           /\ call[1].out /= "panic"
           /\ \A i \in 1..Len(dt) : <<<<"ops", 1>>, i>> \in applied
           /\ call[1].out = "ret" => call[1].val = MapSeq(orig, f)

\* C6: on one stream, Count() and Slice() both return and Count's result is
\* the length of Slice's.
C6_CountIsLenSlice ==
    \A c, d \in Callers :
        (/\ call[c].op = "Count"
         /\ call[d].op = "Slice"
         /\ Completed(c)
         /\ Completed(d))
        => /\ call[c].out = "ret"
           /\ call[d].out = "ret"
           /\ call[c].val = Len(call[d].val)

\* C7: Stream(S).Skip(n).Slice() returns S without its first min(n, len(S))
\* elements, and an empty slice rather than a fault when n > len(S).
C7_SkipSlice ==
    \A n \in Args :
        (/\ ops = <<>>
         /\ fns = <<Fn("Skip", n), Fn("SliceFn", 0)>>
         /\ nCalls = 1
         /\ call[1].op = "Slice"
         /\ Completed(1))
        => (call[1].out = "ret" /\ call[1].val = SkipSeq(orig, n))

\* the zero-equivalent result of a terminal operation
ZeroResult(cl) ==
    CASE cl.op = "Slice" -> cl.val = <<>>
      [] cl.op = "Count" -> cl.val = 0 /\ AnyVal(cl.val) = FALSE
      [] cl.op = "Sum" -> cl.val = 0
      [] cl.op = "Contains" -> cl.val = FALSE

\* C8: on an empty input, whatever stages are registered, no task is
\* enqueued and every terminal call returns its zero-equivalent result,
\* without blocking and without a fault.
C8_EmptyInput ==
    orig = <<>> =>
        /\ tasks.buf = <<>>
        /\ pend = <<>>
        /\ \A c \in Callers :
              /\ pc[c] /= "send"
              /\ call[c].out /= "panic"
              /\ call[c].out = "ret" => ZeroResult(call[c])

\* C9: a step that enters Sum with a nil combine function returns 0 at once
\* and leaves the gate, the queue, the workers and st.dt, st.bm, st.ops,
\* st.opsIdx, st.fns as they were.
C9_SumNilFrame ==
    [][\A c \in Callers :
          (call[c].op = "none" /\ call'[c].op = "Sum" /\ call'[c].arg = 0)
          => /\ call'[c].out = "ret"
             /\ call'[c].val = 0
             /\ pc'[c] = "idle"
             /\ UNCHANGED <<dt, bm, ops, opsIdx, fns, wrksCnt, onceRun, tasks,
                            stopWrkrs, workers, pend, runBodies>>]_vars

\* Sum(nil) returned 0 to the first caller, and the call made after it was the
\* one that performed the first execution
C9_Witness ==
    /\ call[1].op = "Sum"
    /\ call[1].arg = 0
    /\ call[1].out = "ret"
    /\ call[1].val = 0
    /\ call[2].op = "Count"
    /\ runBodies = 1

\* C10: a step that enters Contains(item, eq) returns at once whether item is
\* in the input given to Stream(), and changes nothing of the stream: gate,
\* queue, workers, buffer, tracker and stage lists.
C10_ContainsBypass ==
    [][\A c \in Callers :
          (call[c].op = "none" /\ call'[c].op = "Contains")
          => /\ call'[c].out = "ret"
             /\ call'[c].val = (\E i \in 1..Len(orig) : Eq(orig[i], call'[c].arg))
             /\ pc'[c] = "idle"
             /\ UNCHANGED <<dt, bm, ops, opsIdx, fns, wrksCnt, onceRun, tasks,
                            stopWrkrs, workers, pend, runBodies>>]_vars

\* Contains found the item on a stream with a registered Map stage whose
\* first terminal call is left in run()
C10_Witness ==
    /\ call[2].op = "Contains"
    /\ call[2].out = "ret"
    /\ call[2].val = TRUE
    /\ ops /= <<>>
    /\ call[1].op = "Count"
    /\ pc[1] = "send"

\* s is a prefix of t
IsPrefix(s, t) == Len(s) <= Len(t) /\ SubSeq(t, 1, Len(s)) = s

C12_GoSetsWorkers ==
    (lastReg.kind = "Go" /\ lastReg.arg >= 1) => wrksCnt = lastReg.arg

\* C13: the worker count is at least 1 in every reachable state, whatever
\* registration calls were made, Go(0) included.
C13_WorkerCountPositive == wrksCnt >= 1

\* Go(0) was called and a terminal call then ran addTasks, which divided the
\* buffer length by the worker count
C13_Witness ==
    /\ lastReg = Fn("Go", 0)
    /\ runBodies = 1
    /\ wrksCnt = 1

\* a call of addTasks has been made and will enqueue nothing more: run() is
\* over, or its caller is left in the send for good
AddTasksOver == runBodies >= 1 /\ (onceRun = "done" \/ \E c \in Callers : BlockedInSend(c))

\* the windows ws are consecutive, non-empty and pairwise disjoint, cover
\* [0, L) exactly, and have size b except the last, which may be shorter
Partitions(ws, L, b) ==
    /\ (ws = <<>>) <=> (L = 0)
    /\ ws /= <<>> => (ws[1].lf = 0 /\ ws[Len(ws)].rg = L)
    /\ \A i \in 1..Len(ws) :
          /\ ws[i].lf < ws[i].rg
          /\ ws[i].rg - ws[i].lf <= b
          /\ i < Len(ws) => (ws[i].rg = ws[i + 1].lf /\ ws[i].rg - ws[i].lf = b)

\* C15: once a call of addTasks on a buffer of length L is over, the tasks it
\* enqueued have windows that are consecutive, non-empty, pairwise disjoint
\* and cover [0, L), each of size max(minSplitLen, L / wrksCnt) but the last.
C15_Partitioning ==
    AddTasksOver
    => Partitions(tasks.buf, Len(dt), Max(minSplitLen, Len(dt) \div wrksCnt))

\* C16: a chunk the scheduler will do nothing more for has had every stage of
\* st.ops applied to each of its elements (the declared list, none skipped).
C16_PerChunkStageOrder ==
    (\E c \in Callers : BlockedInSend(c))
    => \A j \in 1..Len(pend), k \in 1..Len(ops) :
          \A i \in (pend[j].lf + 1)..pend[j].rg : <<<<"ops", k>>, i>> \in applied

C19_CursorInBounds == opsIdx <= Len(ops)

\* how often the transform of barrier stage k ran
BarrierRunsOf(k) ==
    Cardinality({j \in 1..Len(barrierRuns) : barrierRuns[j] = ops[k].id})

\* the tasks of stage k were built and none is queued or in a worker's hands
Handled(k) ==
    /\ k <= opsIdx
    /\ \A j \in 1..Len(tasks.buf) : tasks.buf[j].op.id /= ops[k].id
    /\ \A w \in 1..Len(workers) : wtask[w].op.id /= ops[k].id

Stuck(w) ==
    \/ /\ workers[w] = "lockSync"
       /\ syncMx /= 0
       /\ workers[syncMx] \in {"select", "lockSync", "stopped"}
    \/ /\ workers[w] = "lockDone"
       /\ doneMx /= 0
       /\ workers[doneMx] \in {"select", "lockSync", "lockDone", "stopped"}

====
